---- MODULE Spec2Model ----
(***************************************************************************)
(* Model of the habit tracker backend (src/backend/main.py).               *)
(*                                                                         *)
(* The database is two tables, habits and completions, each a set of rows  *)
(* keyed by an integer primary key.  Calendar dates are day numbers: the   *)
(* server's clock (date.today()) is the variable today, and                *)
(* date - timedelta(days=1) is d - 1.                                      *)
(*                                                                         *)
(* Two specifications are given.  Spec serves one request at a time: a     *)
(* handler runs start-to-finish, its database round trips with no other    *)
(* request between them (one action per handler; get_habits, which reads   *)
(* the clock once per habit, is one action per clock reading).  SpecConc   *)
(* runs every handler as the separate database round trips it makes, one   *)
(* session per worker thread, interleaved in any order.                    *)
(***************************************************************************)
EXTENDS Integers, Sequences, FiniteSets, TLC

VARIABLES
    habits,       \* table "habits": set of rows [id, name, emoji, created_at]
    completions,  \* table "completions": set of rows [id, habit_id, completed_date]
    today,        \* date.today() of the server
    response,     \* Spec: the request being served and its answer;
                  \* SpecConc: the answer just sent
    sessions      \* SpecConc: per worker, the handler in progress and its locals

vars == <<habits, completions, today, response, sessions>>

----------------------------------------------------------------------------
(* Bounds of the model *)

\* largest primary key a completion row may get
MaxCompletionId == 2
\* the same for the interleaved handlers
MaxConcCompletionId == 3
\* number of times the clock advances (today runs over 0..MaxDay)
MaxDay == 1

\* primary keys a habit row may get
HabitKeys == {1, 2}

\* client-supplied dates: from the day before day 0 to one day past the last
\* modelled day (a date after today whatever today is)
Dates == (0 - 1)..(MaxDay + 1)

\* ids a client may put in a path or body: the keys and one that is never stored
HabitIdInputs == HabitKeys \cup {3}
CompletionIdInputs == 1..(MaxCompletionId + 1)

\* a JSON body field that is not sent
Absent == "<absent>"
\* names a client may send; "" is the empty string
Names == {"", "Run"}
\* Column default / pydantic default of emoji (the star glyph of the source)
DefaultEmoji == "star"
Emojis == {DefaultEmoji, "fire"}

\* worker threads serving requests (SpecConc)
Workers == {1, 2}

----------------------------------------------------------------------------
(* The ORM queries *)

HabitIds(hs) == {h.id : h \in hs}

\* db.query(Habit).filter(Habit.id == habit_id).first(): the rows found
\* (id is the primary key, so at most one)
QueryHabit(hs, habit_id) == {h \in hs : h.id = habit_id}

\* db.query(Completion).filter(habit_id == .., completed_date == ..).first()
QueryExisting(cs, habit_id, completed_date) ==
    {c \in cs : c.habit_id = habit_id /\ c.completed_date = completed_date}

\* db.query(Completion).filter(Completion.id == completion_id).first()
QueryCompletion(cs, completion_id) == {c \in cs : c.id = completion_id}

\* habit.completions: the relationship collection of a habit
HabitCompletions(cs, habit_id) == {c \in cs : c.habit_id = habit_id}

\* Integer primary key of a new row: SQLite's rowid, one more than the
\* largest key in the table (1 in an empty table)
MaxOf(S) == CHOOSE m \in S : \A x \in S : x <= m
\* a key counted from the number of rows
NextId_from_count(rows) == Cardinality(rows) + 1

NextId(rows) == IF rows = {} THEN 1 ELSE MaxOf({r.id : r \in rows}) + 1

----------------------------------------------------------------------------
(* calculate_streak *)

\* .order_by(Completion.completed_date.desc()).all()
RECURSIVE OrderByDateDesc(_)
OrderByDateDesc(rows) ==
    IF rows = {} THEN <<>>
    ELSE LET first == CHOOSE r \in rows :
                         \A q \in rows : q.completed_date <= r.completed_date
         IN  <<first>> \o OrderByDateDesc(rows \ {first})

\* the for loop of calculate_streak, from the i-th row on
RECURSIVE StreakLoop(_, _, _, _)
StreakLoop(rows, i, streak, current_date) ==
    IF i > Len(rows) THEN streak
    ELSE IF rows[i].completed_date = current_date
         THEN StreakLoop(rows, i + 1, streak + 1, current_date - 1)
    ELSE IF rows[i].completed_date = current_date
         THEN StreakLoop(rows, i + 1, streak, current_date)   \* continue
    ELSE streak                                               \* break

\* a streak over the completions of every habit (the filter left out)
calculate_streak_unscoped(habit_id, cs, now) ==
    LET rows == OrderByDateDesc(cs)
    IN  IF rows = <<>> THEN 0 ELSE StreakLoop(rows, 1, 0, now)

\* a streak that starts at the latest completed day instead of today
calculate_streak_from_latest(habit_id, cs, now) ==
    LET rows == OrderByDateDesc(HabitCompletions(cs, habit_id))
    IN  IF rows = <<>> THEN 0 ELSE StreakLoop(rows, 1, 0, rows[1].completed_date)

calculate_streak(habit_id, cs, now) ==
    LET rows == OrderByDateDesc(HabitCompletions(cs, habit_id))
    IN  IF rows = <<>> THEN 0 ELSE StreakLoop(rows, 1, 0, now)

----------------------------------------------------------------------------
(* Responses *)

HabitResponse(h, streak) ==
    [id |-> h.id, name |-> h.name, emoji |-> h.emoji,
     current_streak |-> streak, created_at |-> h.created_at]

\* what a handler answered: the operation, its request, the HTTP status and
\* the habits / completions of the body
Resp(op, req, status, hs, cs) ==
    [op |-> op, req |-> req, status |-> status, habits |-> hs, completions |-> cs]

NoResponse == Resp("none", [id |-> 0], 0, {}, {})

\* a session with no request: the handler's position and its locals
Idle == [pc |-> "idle", habit_id |-> 0, completed_date |-> 0,
         name |-> Absent, emoji |-> Absent, loaded |-> {}, row_id |-> 0,
         status |-> 0, result |-> {}]

----------------------------------------------------------------------------
(* Initial state: create_all on an empty database *)

Init ==
    /\ habits = {}
    /\ completions = {}
    /\ today = 0
    /\ response = NoResponse
    /\ sessions = [w \in Workers |-> Idle]

----------------------------------------------------------------------------
(* The handlers, each run start-to-finish: the database round trips of a    *)
(* handler follow one another with no round trip of another request        *)
(* between them, so every query reads what the one before left.  The       *)
(* round trips one by one are the actions of SpecConc below.               *)

\* the row .all() yields first among rows: SQLite reads the table in key order
FirstRow(rows) == CHOOSE h \in rows : \A q \in rows : h.id <= q.id

\* a read that drops the completions dated after today
get_habits_pruning ==
    /\ response' = Resp("get_habits", [id |-> 0, todo |-> habits],
                        IF habits = {} THEN 200 ELSE 0, {}, {})
    /\ completions' = {c \in completions : c.completed_date <= today}
    /\ UNCHANGED <<habits, today, sessions>>

\* GET /api/habits, line 126: db.query(Habit).all().  The rows read (todo)
\* wait for the loop; status 0 is a request not answered yet, and with no
\* habit stored the empty list is returned at once.
get_habits ==
    /\ response' = Resp("get_habits", [id |-> 0, todo |-> habits],
                        IF habits = {} THEN 200 ELSE 0, {}, {})
    /\ UNCHANGED <<habits, completions, today, sessions>>

\* GET /api/habits, one turn of the for loop: calculate_streak queries the
\* completions of the habit and reads date.today(), both as they are at this
\* turn; after the last turn the list is returned
get_habits_loop ==
    /\ response.op = "get_habits"
    /\ response.req.todo # {}
    /\ LET habit == FirstRow(response.req.todo)
           rest == response.req.todo \ {habit}
       IN  response' = Resp("get_habits", [id |-> 0, todo |-> rest],
                            IF rest = {} THEN 200 ELSE 0,
                            response.habits \cup
                                {HabitResponse(habit,
                                    calculate_streak(habit.id, completions, today))},
                            {})
    /\ UNCHANGED <<habits, completions, today, sessions>>

\* POST /api/habits.  HabitCreate: name is a required str (any string, the
\* empty one included), emoji defaults to the star.  db.commit() inserts the
\* row and db.refresh() reads it back (ch_commit, ch_refresh); a key past
\* HabitKeys is the bound of the model.
create_habit(name, emoji) ==
    IF name = Absent
    THEN /\ response' = Resp("create_habit", [name |-> name], 422, {}, {})
         /\ UNCHANGED <<habits, completions, today, sessions>>
    ELSE LET db_habit == [id |-> NextId(habits),
                          name |-> name,
                          emoji |-> IF emoji = Absent THEN DefaultEmoji ELSE emoji,
                          created_at |-> today]
         IN  /\ db_habit.id \in HabitKeys
             /\ habits' = habits \cup {db_habit}
             /\ response' = Resp("create_habit", [name |-> name], 200,
                                 {HabitResponse(db_habit, 0)}, {})
             /\ UNCHANGED <<completions, today, sessions>>

\* an update that also stamps created_at, as create_habit does
update_habit_restamped(habit_id, name, emoji) ==
    LET req == [id |-> habit_id, name |-> name, emoji |-> emoji]
        found == QueryHabit(habits, habit_id)
    IN  IF name = Absent \/ emoji = Absent
        THEN /\ response' = Resp("update_habit", [id |-> habit_id], 422, {}, {})
             /\ UNCHANGED <<habits, completions, today, sessions>>
        ELSE IF found = {}
        THEN /\ response' = Resp("update_habit", req, 404, {}, {})
             /\ UNCHANGED <<habits, completions, today, sessions>>
        ELSE LET old == CHOOSE h \in found : TRUE
                 db_habit == [old EXCEPT !.name = name, !.emoji = emoji,
                                         !.created_at = today]
             IN  /\ habits' = (habits \ {old}) \cup {db_habit}
                 /\ response' = Resp("update_habit", req, 200,
                        {HabitResponse(db_habit,
                            calculate_streak(db_habit.id, completions, today))}, {})
                 /\ UNCHANGED <<completions, today, sessions>>

\* PUT /api/habits/{habit_id}.  HabitUpdate: name and emoji are required; a
\* body without one of them is answered 422 before the handler runs.  The
\* query, the commit, the refresh and calculate_streak (uh_query_habit,
\* uh_commit, uh_refresh, uh_streak) all see the row the query found.
update_habit(habit_id, name, emoji) ==
    LET req == [id |-> habit_id, name |-> name, emoji |-> emoji]
        found == QueryHabit(habits, habit_id)
    IN  IF name = Absent \/ emoji = Absent
        THEN /\ response' = Resp("update_habit", [id |-> habit_id], 422, {}, {})
             /\ UNCHANGED <<habits, completions, today, sessions>>
        ELSE IF found = {}
        THEN /\ response' = Resp("update_habit", req, 404, {}, {})
             /\ UNCHANGED <<habits, completions, today, sessions>>
        ELSE LET old == CHOOSE h \in found : TRUE
                 db_habit == [old EXCEPT !.name = name, !.emoji = emoji]
             IN  /\ habits' = (habits \ {old}) \cup {db_habit}
                 /\ response' = Resp("update_habit", req, 200,
                        {HabitResponse(db_habit,
                            calculate_streak(db_habit.id, completions, today))}, {})
                 /\ UNCHANGED <<completions, today, sessions>>

\* a delete without the cascade of the relationship
delete_habit_no_cascade(habit_id) ==
    LET req == [id |-> habit_id]
        found == QueryHabit(habits, habit_id)
    IN  IF found = {}
        THEN /\ response' = Resp("delete_habit", req, 404, {}, {})
             /\ UNCHANGED <<habits, completions, today, sessions>>
        ELSE /\ habits' = habits \ found
             /\ response' = Resp("delete_habit", req, 200, {},
                                 HabitCompletions(completions, habit_id))
             /\ UNCHANGED <<completions, today, sessions>>

\* a delete that empties the completions table
delete_habit_all_completions(habit_id) ==
    LET req == [id |-> habit_id]
        found == QueryHabit(habits, habit_id)
    IN  IF found = {}
        THEN /\ response' = Resp("delete_habit", req, 404, {}, {})
             /\ UNCHANGED <<habits, completions, today, sessions>>
        ELSE /\ habits' = habits \ found
             /\ completions' = {}
             /\ response' = Resp("delete_habit", req, 200, {},
                                 HabitCompletions(completions, habit_id))
             /\ UNCHANGED <<today, sessions>>

\* DELETE /api/habits/{habit_id}.  db.delete cascades to habit.completions
\* (cascade="all, delete-orphan"); the rows go in one commit.
delete_habit(habit_id) ==
    LET req == [id |-> habit_id]
        found == QueryHabit(habits, habit_id)
    IN  IF found = {}
        THEN /\ response' = Resp("delete_habit", req, 404, {}, {})
             /\ UNCHANGED <<habits, completions, today, sessions>>
        ELSE LET cascade == HabitCompletions(completions, habit_id)
             IN  /\ habits' = habits \ found
                 /\ completions' = completions \ cascade
                 /\ response' = Resp("delete_habit", req, 200, {}, cascade)
                 /\ UNCHANGED <<today, sessions>>

\* GET /api/completions
get_completions ==
    /\ response' = Resp("get_completions", [id |-> 0], 200, {}, completions)
    /\ UNCHANGED <<habits, completions, today, sessions>>

\* a create without the duplicate query
create_completion_no_existing(habit_id, completed_date) ==
    LET req == [id |-> habit_id, date |-> completed_date]
    IN  IF QueryHabit(habits, habit_id) = {}
        THEN /\ response' = Resp("create_completion", req, 404, {}, {})
             /\ UNCHANGED <<habits, completions, today, sessions>>
        ELSE LET db_completion == [id |-> NextId(completions),
                                   habit_id |-> habit_id,
                                   completed_date |-> completed_date]
             IN  /\ db_completion.id <= MaxCompletionId
                 /\ completions' = completions \cup {db_completion}
                 /\ response' = Resp("create_completion", req, 200, {}, {db_completion})
                 /\ UNCHANGED <<habits, today, sessions>>

\* a create without the habit query
create_completion_no_habit(habit_id, completed_date) ==
    LET req == [id |-> habit_id, date |-> completed_date]
    IN  IF QueryExisting(completions, habit_id, completed_date) # {}
        THEN /\ response' = Resp("create_completion", req, 400, {}, {})
             /\ UNCHANGED <<habits, completions, today, sessions>>
        ELSE LET db_completion == [id |-> NextId(completions),
                                   habit_id |-> habit_id,
                                   completed_date |-> completed_date]
             IN  /\ db_completion.id <= MaxCompletionId
                 /\ completions' = completions \cup {db_completion}
                 /\ response' = Resp("create_completion", req, 200, {}, {db_completion})
                 /\ UNCHANGED <<habits, today, sessions>>

\* POST /api/completions
create_completion(habit_id, completed_date) ==
    LET req == [id |-> habit_id, date |-> completed_date]
    IN  IF QueryHabit(habits, habit_id) = {}
        THEN /\ response' = Resp("create_completion", req, 404, {}, {})
             /\ UNCHANGED <<habits, completions, today, sessions>>
        ELSE IF QueryExisting(completions, habit_id, completed_date) # {}
        THEN /\ response' = Resp("create_completion", req, 400, {}, {})
             /\ UNCHANGED <<habits, completions, today, sessions>>
        ELSE LET db_completion == [id |-> NextId(completions),
                                   habit_id |-> habit_id,
                                   completed_date |-> completed_date]
             IN  /\ db_completion.id <= MaxCompletionId
                 /\ completions' = completions \cup {db_completion}
                 /\ response' = Resp("create_completion", req, 200, {}, {db_completion})
                 /\ UNCHANGED <<habits, today, sessions>>

\* a delete that filters on the row's date instead of its key
delete_completion_by_date(completion_id) ==
    LET req == [id |-> completion_id]
        found == QueryCompletion(completions, completion_id)
    IN  IF found = {}
        THEN /\ response' = Resp("delete_completion", req, 404, {}, {})
             /\ UNCHANGED <<habits, completions, today, sessions>>
        ELSE /\ completions' = {c \in completions :
                                   \A f \in found : c.completed_date # f.completed_date}
             /\ response' = Resp("delete_completion", req, 200, {}, found)
             /\ UNCHANGED <<habits, today, sessions>>

\* a delete that filters on the row's habit instead of its key
delete_completion_by_habit(completion_id) ==
    LET req == [id |-> completion_id]
        found == QueryCompletion(completions, completion_id)
    IN  IF found = {}
        THEN /\ response' = Resp("delete_completion", req, 404, {}, {})
             /\ UNCHANGED <<habits, completions, today, sessions>>
        ELSE /\ completions' = {c \in completions :
                                   \A f \in found : c.habit_id # f.habit_id}
             /\ response' = Resp("delete_completion", req, 200, {}, found)
             /\ UNCHANGED <<habits, today, sessions>>

\* DELETE /api/completions/{completion_id}: the query and the DELETE by key
\* (dc_query, dc_commit)
delete_completion(completion_id) ==
    LET req == [id |-> completion_id]
        found == QueryCompletion(completions, completion_id)
    IN  IF found = {}
        THEN /\ response' = Resp("delete_completion", req, 404, {}, {})
             /\ UNCHANGED <<habits, completions, today, sessions>>
        ELSE /\ completions' = completions \ found
             /\ response' = Resp("delete_completion", req, 200, {}, found)
             /\ UNCHANGED <<habits, today, sessions>>

\* get_db's finally: the response has gone out and the session is closed;
\* the server takes the next request
get_db_close ==
    /\ response # NoResponse
    /\ response.status # 0
    /\ response' = NoResponse
    /\ UNCHANGED <<habits, completions, today, sessions>>

\* midnight passes: date.today() is one day later.  It passes between two
\* requests or between two turns of the loop of get_habits, the one handler
\* that reads the clock more than once.
Midnight ==
    /\ response.status = 0
    /\ today < MaxDay
    /\ today' = today + 1
    /\ UNCHANGED <<habits, completions, response, sessions>>

\* one request at a time, each handler run start-to-finish
Next ==
    \/ /\ response = NoResponse
       /\ get_habits
    \/ get_habits_loop
    \/ /\ response = NoResponse
       /\ \E name \in Names \cup {Absent}, emoji \in Emojis \cup {Absent} :
             create_habit(name, emoji)
    \/ /\ response = NoResponse
       /\ \E habit_id \in HabitIdInputs, name \in Names \cup {Absent},
             emoji \in Emojis \cup {Absent} : update_habit(habit_id, name, emoji)
    \/ /\ response = NoResponse
       /\ \E habit_id \in HabitIdInputs : delete_habit(habit_id)
    \/ /\ response = NoResponse
       /\ get_completions
    \/ /\ response = NoResponse
       /\ \E habit_id \in HabitIdInputs, completed_date \in Dates :
             create_completion(habit_id, completed_date)
    \/ /\ response = NoResponse
       /\ \E completion_id \in CompletionIdInputs : delete_completion(completion_id)
    \/ get_db_close
    \/ Midnight

Spec == Init /\ [][Next]_vars

----------------------------------------------------------------------------
(* The handlers as the worker threads run them: one action per database    *)
(* round trip.  FastAPI runs a def handler in a thread pool, each request   *)
(* with a session of its own (get_db).  A SELECT reads the committed rows;  *)
(* the pending INSERT / UPDATE / DELETE statements go out in db.commit(),   *)
(* as one transaction.  The default database is SQLite (DATABASE_URL),      *)
(* which does not enforce ForeignKey("habits.id") unless told to, and the   *)
(* tables declare no unique constraint on (habit_id, completed_date).       *)
(* An exception the handler does not catch is answered 500.                 *)

\* the handler of worker w returns or raises: its answer goes out and its
\* session is free for the next request
Done(w, op, status, hs, cs) ==
    /\ sessions' = [sessions EXCEPT ![w] = Idle]
    /\ response' = Resp(op, [id |-> 0], status, hs, cs)

\* get_habits: db.query(Habit).all(); the rows stay loaded in the session
gh_query_habits(w) ==
    /\ sessions[w].pc = "idle"
    /\ IF habits = {}
       THEN Done(w, "get_habits", 200, {}, {})
       ELSE /\ sessions' = [sessions EXCEPT ![w] =
                  [Idle EXCEPT !.pc = "gh_loop", !.loaded = habits]]
            /\ UNCHANGED response
    /\ UNCHANGED <<habits, completions, today>>

\* get_habits: one turn of the for loop.  The habit is the row as loaded;
\* calculate_streak queries its completions and reads date.today() now.
gh_loop(w) ==
    /\ sessions[w].pc = "gh_loop"
    /\ LET habit == FirstRow(sessions[w].loaded)
           rest == sessions[w].loaded \ {habit}
           entry == HabitResponse(habit,
                                  calculate_streak(habit.id, completions, today))
       IN  IF rest = {}
           THEN Done(w, "get_habits", 200, sessions[w].result \cup {entry}, {})
           ELSE /\ sessions' = [sessions EXCEPT ![w] =
                      [@ EXCEPT !.loaded = rest, !.result = @ \cup {entry}]]
                /\ UNCHANGED response
    /\ UNCHANGED <<habits, completions, today>>

\* create_habit: db.add and db.commit (the INSERT)
ch_commit(w, name, emoji) ==
    LET db_habit == [id |-> NextId(habits),
                     name |-> name,
                     emoji |-> IF emoji = Absent THEN DefaultEmoji ELSE emoji,
                     created_at |-> today]
    IN  /\ sessions[w].pc = "idle"
        /\ db_habit.id \in HabitKeys
        /\ habits' = habits \cup {db_habit}
        /\ sessions' = [sessions EXCEPT ![w] =
              [Idle EXCEPT !.pc = "ch_refresh", !.row_id = db_habit.id]]
        /\ UNCHANGED <<completions, today, response>>

\* create_habit: db.refresh reads the row back by its key, and the answer is
\* made of what it read; the row being gone is an unhandled
\* InvalidRequestError
ch_refresh(w) ==
    LET found == QueryHabit(habits, sessions[w].row_id)
    IN  /\ sessions[w].pc = "ch_refresh"
        /\ IF found = {}
           THEN Done(w, "create_habit", 500, {}, {})
           ELSE Done(w, "create_habit", 200, {HabitResponse(h, 0) : h \in found}, {})
        /\ UNCHANGED <<habits, completions, today>>

\* update_habit: the habit query, and the 404
uh_query_habit(w, habit_id, name, emoji) ==
    LET found == QueryHabit(habits, habit_id)
    IN  /\ sessions[w].pc = "idle"
        /\ IF found = {}
           THEN Done(w, "update_habit", 404, {}, {})
           ELSE /\ sessions' = [sessions EXCEPT ![w] =
                      [Idle EXCEPT !.pc = "uh_commit", !.habit_id = habit_id,
                                   !.name = name, !.emoji = emoji,
                                   !.loaded = found]]
                /\ UNCHANGED response
        /\ UNCHANGED <<habits, completions, today>>

\* update_habit: the two assignments and db.commit().  The flush writes the
\* columns whose new value differs from the loaded one, in one UPDATE by
\* primary key; with no column changed there is no UPDATE.  An UPDATE that
\* matches no row is an unhandled StaleDataError.
uh_commit(w) ==
    LET old == FirstRow(sessions[w].loaded)
        name == sessions[w].name
        emoji == sessions[w].emoji
        found == QueryHabit(habits, sessions[w].habit_id)
        expired == [sessions EXCEPT ![w] =
                       [@ EXCEPT !.pc = "uh_refresh", !.loaded = {},
                                 !.name = Absent, !.emoji = Absent]]
    IN  /\ sessions[w].pc = "uh_commit"
        /\ IF name = old.name /\ emoji = old.emoji
           THEN /\ sessions' = expired
                /\ UNCHANGED <<habits, response>>
           ELSE IF found = {}
           THEN /\ Done(w, "update_habit", 500, {}, {})
                /\ UNCHANGED habits
           ELSE /\ habits' = (habits \ found) \cup
                      {[h EXCEPT !.name = IF name = old.name THEN @ ELSE name,
                                 !.emoji = IF emoji = old.emoji THEN @ ELSE emoji] :
                          h \in found}
                /\ sessions' = expired
                /\ UNCHANGED response
        /\ UNCHANGED <<completions, today>>

\* update_habit: db.refresh reads the row back by its key; the row being
\* gone is an unhandled InvalidRequestError
uh_refresh(w) ==
    LET found == QueryHabit(habits, sessions[w].habit_id)
    IN  /\ sessions[w].pc = "uh_refresh"
        /\ IF found = {}
           THEN Done(w, "update_habit", 500, {}, {})
           ELSE /\ sessions' = [sessions EXCEPT ![w] =
                      [@ EXCEPT !.pc = "uh_streak", !.loaded = found]]
                /\ UNCHANGED response
        /\ UNCHANGED <<habits, completions, today>>

\* update_habit: calculate_streak, and the answer made of the refreshed row
uh_streak(w) ==
    /\ sessions[w].pc = "uh_streak"
    /\ Done(w, "update_habit", 200,
            {HabitResponse(h, calculate_streak(h.id, completions, today)) :
                h \in sessions[w].loaded}, {})
    /\ UNCHANGED <<habits, completions, today>>

\* get_completions: one query
gc_query(w) ==
    /\ sessions[w].pc = "idle"
    /\ Done(w, "get_completions", 200, {}, completions)
    /\ UNCHANGED <<habits, completions, today>>

\* create_completion: the habit query, and the 404
cc_query_habit(w, habit_id, completed_date) ==
    /\ sessions[w].pc = "idle"
    /\ IF QueryHabit(habits, habit_id) = {}
       THEN Done(w, "create_completion", 404, {}, {})
       ELSE /\ sessions' = [sessions EXCEPT ![w] =
                  [Idle EXCEPT !.pc = "cc_query_existing", !.habit_id = habit_id,
                               !.completed_date = completed_date]]
            /\ UNCHANGED response
    /\ UNCHANGED <<habits, completions, today>>

\* create_completion: the duplicate query, and the 400
cc_query_existing(w) ==
    /\ sessions[w].pc = "cc_query_existing"
    /\ IF QueryExisting(completions, sessions[w].habit_id,
                        sessions[w].completed_date) # {}
       THEN Done(w, "create_completion", 400, {}, {})
       ELSE /\ sessions' = [sessions EXCEPT ![w] = [@ EXCEPT !.pc = "cc_commit"]]
            /\ UNCHANGED response
    /\ UNCHANGED <<habits, completions, today>>

\* create_completion: db.add and db.commit
cc_commit(w) ==
    LET db_completion == [id |-> NextId(completions),
                          habit_id |-> sessions[w].habit_id,
                          completed_date |-> sessions[w].completed_date]
    IN  /\ sessions[w].pc = "cc_commit"
        /\ db_completion.id <= MaxConcCompletionId
        /\ completions' = completions \cup {db_completion}
        /\ sessions' = [sessions EXCEPT ![w] =
              [Idle EXCEPT !.pc = "cc_refresh", !.row_id = db_completion.id]]
        /\ UNCHANGED <<habits, today, response>>

\* create_completion: db.refresh reads the row back by its key, and the row
\* read is the answer; the row being gone is an unhandled
\* InvalidRequestError
cc_refresh(w) ==
    LET found == QueryCompletion(completions, sessions[w].row_id)
    IN  /\ sessions[w].pc = "cc_refresh"
        /\ IF found = {}
           THEN Done(w, "create_completion", 500, {}, {})
           ELSE Done(w, "create_completion", 200, {}, found)
        /\ UNCHANGED <<habits, completions, today>>

\* delete_habit: the habit query, and the 404
dh_query_habit(w, habit_id) ==
    /\ sessions[w].pc = "idle"
    /\ IF QueryHabit(habits, habit_id) = {}
       THEN Done(w, "delete_habit", 404, {}, {})
       ELSE /\ sessions' = [sessions EXCEPT ![w] =
                  [Idle EXCEPT !.pc = "dh_delete", !.habit_id = habit_id]]
            /\ UNCHANGED response
    /\ UNCHANGED <<habits, completions, today>>

\* delete_habit: db.delete(db_habit) loads habit.completions and marks the
\* habit and the loaded rows deleted in the session
dh_delete(w) ==
    /\ sessions[w].pc = "dh_delete"
    /\ sessions' = [sessions EXCEPT ![w] =
          [@ EXCEPT !.pc = "dh_commit",
                    !.loaded = {c.id : c \in HabitCompletions(completions,
                                                              sessions[w].habit_id)}]]
    /\ UNCHANGED <<habits, completions, today, response>>

\* delete_habit: db.commit() deletes the marked rows by primary key; a
\* DELETE that matches no row is a warning only
dh_commit(w) ==
    /\ sessions[w].pc = "dh_commit"
    /\ completions' = {c \in completions : c.id \notin sessions[w].loaded}
    /\ habits' = {h \in habits : h.id # sessions[w].habit_id}
    /\ Done(w, "delete_habit", 200, {}, {})
    /\ UNCHANGED today

\* delete_completion: the completion query, and the 404
dc_query(w, completion_id) ==
    /\ sessions[w].pc = "idle"
    /\ IF QueryCompletion(completions, completion_id) = {}
       THEN Done(w, "delete_completion", 404, {}, {})
       ELSE /\ sessions' = [sessions EXCEPT ![w] =
                  [Idle EXCEPT !.pc = "dc_commit", !.row_id = completion_id]]
            /\ UNCHANGED response
    /\ UNCHANGED <<habits, completions, today>>

\* delete_completion: db.delete and db.commit(): the DELETE by primary key;
\* a DELETE that matches no row is a warning only
dc_commit(w) ==
    /\ sessions[w].pc = "dc_commit"
    /\ completions' = {c \in completions : c.id # sessions[w].row_id}
    /\ Done(w, "delete_completion", 200, {}, {})
    /\ UNCHANGED <<habits, today>>

\* the dates the interleaved requests carry: day 0 and the day before
ConcDates == {0 - 1, 0}

\* every handler interleaved round trip by round trip; an answer sent is
\* cleared (get_db_close) before the next round trip of any worker; the clock
\* stays at day 0
NextConc ==
    \/ get_db_close
    \/ /\ response = NoResponse
       /\ \E w \in Workers : gh_query_habits(w)
    \/ /\ response = NoResponse
       /\ \E w \in Workers : gh_loop(w)
    \/ /\ response = NoResponse
       /\ \E w \in Workers : ch_commit(w, "Run", Absent)
    \/ /\ response = NoResponse
       /\ \E w \in Workers : ch_refresh(w)
    \/ /\ response = NoResponse
       /\ \E w \in Workers, habit_id \in HabitKeys :
                 uh_query_habit(w, habit_id, "Run", "fire")
    \/ /\ response = NoResponse
       /\ \E w \in Workers : uh_commit(w)
    \/ /\ response = NoResponse
       /\ \E w \in Workers : uh_refresh(w)
    \/ /\ response = NoResponse
       /\ \E w \in Workers : uh_streak(w)
    \/ /\ response = NoResponse
       /\ \E w \in Workers : gc_query(w)
    \/ /\ response = NoResponse
       /\ \E w \in Workers, habit_id \in HabitIdInputs, completed_date \in ConcDates :
                 cc_query_habit(w, habit_id, completed_date)
    \/ /\ response = NoResponse
       /\ \E w \in Workers : cc_query_existing(w)
    \/ /\ response = NoResponse
       /\ \E w \in Workers : cc_commit(w)
    \/ /\ response = NoResponse
       /\ \E w \in Workers : cc_refresh(w)
    \/ /\ response = NoResponse
       /\ \E w \in Workers, habit_id \in HabitIdInputs : dh_query_habit(w, habit_id)
    \/ /\ response = NoResponse
       /\ \E w \in Workers : dh_delete(w)
    \/ /\ response = NoResponse
       /\ \E w \in Workers : dh_commit(w)
    \/ /\ response = NoResponse
       /\ \E w \in Workers, completion_id \in 1..MaxConcCompletionId :
                 dc_query(w, completion_id)
    \/ /\ response = NoResponse
       /\ \E w \in Workers : dc_commit(w)

SpecConc == Init /\ [][NextConc]_vars

----------------------------------------------------------------------------
(* The properties *)

\* the days on which a habit has a completion
CompletedDates(cs, habit_id) == {c.completed_date : c \in HabitCompletions(cs, habit_id)}

\* the length of the unbroken run of completed days that ends at day d
RECURSIVE RunEndingAt(_, _)
RunEndingAt(S, d) == IF d \in S THEN 1 + RunEndingAt(S, d - 1) ELSE 0

\* the response at hand reports streaks: listHabits or a successful updateHabit
StreakReported ==
    /\ response.op \in {"get_habits", "update_habit"}
    /\ response.status = 200

\* the habits the step at hand reports: the entries a turn of listHabits or
\* an updateHabit adds to the response, each with the streak calculate_streak
\* returns in this step, for the completions and the today of this step
StreakEntries ==
    IF response'.op \in {"get_habits", "update_habit"}
    THEN response'.habits \ response.habits
    ELSE {}

\* the step at hand is the handler op answering a request
Served(op) == response = NoResponse /\ response'.op = op

\* C1 (grace day): a habit with no completion today and one yesterday is
\* reported with the length of the run of completed days ending yesterday.
C1_GraceDay ==
    [][\A r \in StreakEntries :
          LET S == CompletedDates(completions, r.id)
          IN  (today \notin S /\ today - 1 \in S)
                  => r.current_streak = RunEndingAt(S, today - 1)]_vars

\* C2: a habit with a completion today is reported with the length of the
\* run of completed days ending today, whatever other completions it has.
C2_RunEndingToday ==
    [][\A r \in StreakEntries :
          LET S == CompletedDates(completions, r.id)
          IN  today \in S => r.current_streak = RunEndingAt(S, today)]_vars

\* C3: a habit with no completion today and none yesterday is reported with
\* streak 0, whatever older (or later) completions it has.
C3_NoRecentCompletion ==
    [][\A r \in StreakEntries :
          LET S == CompletedDates(completions, r.id)
          IN  (today \notin S /\ today - 1 \notin S) => r.current_streak = 0]_vars

\* C3's case: an updateHabit just reported a habit whose only completions
\* are older than yesterday
C3_Witness ==
    /\ response.op = "update_habit"
    /\ response.status = 200
    /\ \E r \in response.habits :
          LET S == CompletedDates(completions, r.id)
          IN  /\ S # {}
              /\ \A d \in S : d < today - 1
              /\ r.current_streak = 0

\* C4: with the round trips of concurrent createCompletion calls interleaved,
\* no two stored rows have the same (habit_id, completed_date).
C4_NoDuplicateRows ==
    \A c1, c2 \in completions :
        (c1.habit_id = c2.habit_id /\ c1.completed_date = c2.completed_date)
            => c1.id = c2.id

\* at most one completion per (habit_id, completed_date)
UniquePairs ==
    \A c1, c2 \in completions :
        (c1.habit_id = c2.habit_id /\ c1.completed_date = c2.completed_date)
            => c1 = c2

\* a createCompletion for a stored pair answers 400 and changes no table
DuplicateRejected ==
    (/\ Served("create_completion")
     /\ QueryExisting(completions, response'.req.id, response'.req.date) # {})
        => /\ response'.status = 400
           /\ habits' = habits
           /\ completions' = completions

\* C5: with every handler run start-to-finish, every reachable state holds at
\* most one completion per (habit_id, completed_date), and a createCompletion
\* for a stored pair is rejected with 400 and changes nothing.
C5_SequentialUniqueness == []UniquePairs /\ [][DuplicateRejected]_vars

\* C5's case: a createCompletion for a stored pair was just rejected
C5_Witness ==
    /\ response.op = "create_completion"
    /\ response.status = 400
    /\ QueryExisting(completions, response.req.id, response.req.date) # {}

\* C6 (cascade): after a successful deleteHabit(id) the habit is gone and no
\* stored completion has habit_id = id.
C6_Cascade ==
    (response.op = "delete_habit" /\ response.status = 200)
        => /\ response.req.id \notin HabitIds(habits)
           /\ HabitCompletions(completions, response.req.id) = {}

\* C6's case: a habit with two completions was just deleted
C6_Witness ==
    /\ response.op = "delete_habit"
    /\ response.status = 200
    /\ Cardinality(response.completions) >= 2

\* C7: with deleteHabit and createCompletion interleaved, in every quiescent
\* state every stored completion belongs to a stored habit.
C7_NoOrphans ==
    (\A w \in Workers : sessions[w].pc = "idle")
        => \A c \in completions : c.habit_id \in HabitIds(habits)

\* C8 (referential check): createCompletion with a habit_id that is not
\* stored answers 404 and leaves habits and completions unchanged.
C8_ReferentialCheck ==
    [][(Served("create_completion") /\ response'.req.id \notin HabitIds(habits))
          => /\ response'.status = 404
             /\ habits' = habits
             /\ completions' = completions]_vars

\* C8's case: a createCompletion for a missing habit was just answered 404
\* while other habits and completions are stored
C8_Witness ==
    /\ response.op = "create_completion"
    /\ response.status = 404
    /\ response.req.id \notin HabitIds(habits)
    /\ habits # {}
    /\ completions # {}

\* C9: createHabit with an empty name is rejected with a validation error,
\* so no stored habit has an empty name.
C9_NonEmptyNames ==
    /\ (response.op = "create_habit" /\ response.req.name = "") => response.status = 422
    /\ \A h \in habits : h.name # ""

\* the stored row of a habit
HabitRow(hs, habit_id) == CHOOSE h \in hs : h.id = habit_id

\* C10: updateHabit answers 404 and changes nothing for an id that is not
\* stored; otherwise it overwrites that habit's name and emoji only (id,
\* created_at, the other habits and all completions stay) and returns the
\* streak computed from that habit's completions.
C10_UpdateFrame ==
    [][(Served("update_habit") /\ response'.status # 422)
          => LET id == response'.req.id
             IN  IF id \notin HabitIds(habits)
                 THEN /\ response'.status = 404
                      /\ habits' = habits
                      /\ completions' = completions
                 ELSE /\ response'.status = 200
                      /\ completions' = completions
                      /\ {h \in habits' : h.id # id} = {h \in habits : h.id # id}
                      /\ HabitIds(habits') = HabitIds(habits)
                      /\ HabitRow(habits', id).created_at = HabitRow(habits, id).created_at
                      /\ HabitRow(habits', id).name = response'.req.name
                      /\ HabitRow(habits', id).emoji = response'.req.emoji
                      /\ \E r \in response'.habits :
                            /\ response'.habits = {r}
                            /\ r.id = id
                            /\ r.name = HabitRow(habits', id).name
                            /\ r.emoji = HabitRow(habits', id).emoji
                            /\ r.created_at = HabitRow(habits, id).created_at
                            /\ r.current_streak =
                                   calculate_streak(id, completions', today')]_vars

\* C10's case: a habit created on an earlier day, with a running streak, was
\* just updated while another habit is stored
C10_Witness ==
    /\ response.op = "update_habit"
    /\ response.status = 200
    /\ Cardinality(habits) = 2
    /\ \E r \in response.habits : r.created_at < today /\ r.current_streak > 0

\* C11: deleteCompletion answers 404 and changes nothing when no completion
\* has the id; otherwise it removes exactly that completion and leaves every
\* habit and every other completion as they were.
C11_DeleteCompletionFrame ==
    [][Served("delete_completion")
          => LET id == response'.req.id
             IN  IF QueryCompletion(completions, id) = {}
                 THEN /\ response'.status = 404
                      /\ habits' = habits
                      /\ completions' = completions
                 ELSE /\ response'.status = 200
                      /\ habits' = habits
                      /\ completions' = {c \in completions : c.id # id}]_vars

\* C11's case: a completion was just deleted while another completion of the
\* same habit stays stored
C11_Witness ==
    /\ response.op = "delete_completion"
    /\ response.status = 200
    /\ \E d \in response.completions :
          /\ d \notin completions
          /\ HabitCompletions(completions, d.habit_id) # {}

\* C13: every habit without completions is reported with streak 0.
C13_EmptyIsZero ==
    [][\A r \in StreakEntries :
          HabitCompletions(completions, r.id) = {} => r.current_streak = 0]_vars

\* C13's case: a habit without completions is reported while another habit
\* has a completion today
C13_Witness ==
    /\ StreakReported
    /\ \E r \in response.habits :
          /\ HabitCompletions(completions, r.id) = {}
          /\ r.current_streak = 0
    /\ \E c \in completions : c.completed_date = today

\* C18: deleteHabit answers 404 and changes nothing when the id is not
\* stored; otherwise it removes that habit and the completions whose habit_id
\* is the id, and nothing else.
C18_DeleteHabitFrame ==
    [][Served("delete_habit")
          => LET id == response'.req.id
             IN  IF id \notin HabitIds(habits)
                 THEN /\ response'.status = 404
                      /\ habits' = habits
                      /\ completions' = completions
                 ELSE /\ response'.status = 200
                      /\ habits' = {h \in habits : h.id # id}
                      /\ completions' = {c \in completions : c.habit_id # id}]_vars

\* C18's case: a habit with a completion was just deleted while another
\* habit and a completion of it stay stored
C18_Witness ==
    /\ response.op = "delete_habit"
    /\ response.status = 200
    /\ response.completions # {}
    /\ habits # {}
    /\ completions # {}

\* C12: createHabit returns the new habit with streak 0 and an id no other
\* stored habit has, and no stored completion references that id, so the
\* streak a following listHabits derives for it is 0 as well.
C12_NewHabitStreak ==
    (response.op = "create_habit" /\ response.status = 200)
        => \E r \in response.habits :
              /\ response.habits = {r}
              /\ r.current_streak = 0
              /\ Cardinality({h \in habits : h.id = r.id}) = 1
              /\ HabitCompletions(completions, r.id) = {}
              /\ calculate_streak(r.id, completions, today) = 0

\* C12's case: a habit was just created on a later day beside another habit,
\* with completions stored
C12_Witness ==
    /\ response.op = "create_habit"
    /\ response.status = 200
    /\ Cardinality(habits) = 2
    /\ completions # {}
    /\ \E r \in response.habits : r.created_at > 0

\* C14: listHabits leaves the stored habits and completions as they were, and
\* the streaks it reports are the ones computed again from the resulting
\* state with the same today.  Every step of listHabits (the query and each
\* turn of its loop) leaves the tables as they were; the entry a turn adds is
\* the stored habit with the streak computed from the state after the turn;
\* the list returned has every stored habit.
C14_ReadIdempotent ==
    [][(response'.op = "get_habits" /\ response' # response)
          => /\ habits' = habits
             /\ completions' = completions
             /\ today' = today
             /\ StreakEntries \subseteq
                    {HabitResponse(h, calculate_streak(h.id, completions', today')) :
                        h \in habits'}
             /\ response'.status = 200
                    => HabitIds(response'.habits) = HabitIds(habits')]_vars

\* C14's case: a read that reported a running streak and a habit with a
\* completion dated after today
C14_Witness ==
    /\ response.op = "get_habits"
    /\ response.status = 200
    /\ Cardinality(response.habits) = 2
    /\ \E r \in response.habits : r.current_streak > 0
    /\ \E c \in completions : c.completed_date > today

\* C15: completions dated after today do not change the reported streak: it
\* is the streak of the completions dated today or earlier.
C15_FutureIgnored ==
    [][\A r \in StreakEntries :
          r.current_streak =
              calculate_streak(r.id, {c \in completions : c.completed_date <= today},
                               today)]_vars

\* one row of every (habit_id, completed_date): the one with the least key
OnePerPair(cs) ==
    {c \in cs : \A q \in cs :
        (q.habit_id = c.habit_id /\ q.completed_date = c.completed_date)
            => c.id <= q.id}

\* C16: the streak of a habit is that of its distinct completed dates: with
\* two rows of the same (habit_id, completed_date) stored it equals the streak
\* computed with one of them.
C16_DuplicateRowsIgnored ==
    \A h \in habits :
        calculate_streak(h.id, completions, today)
            = calculate_streak(h.id, OnePerPair(completions), today)

\* the habits a write is aimed at: the habit of the request, or the habit of
\* the completion a deleteCompletion removed
WriteTargets(r) ==
    IF r.op = "delete_completion"
    THEN {c.habit_id : c \in r.completions}
    ELSE {r.req.id}

\* C17: creating or deleting a completion of a habit g, or updating or
\* deleting g, leaves every other stored habit h listed with the streak it
\* had.
C17_StreakScoped ==
    [][(/\ response = NoResponse
        /\ response'.op \in {"create_completion", "delete_completion",
                             "update_habit", "delete_habit"})
          => \A h \in habits :
                h.id \notin WriteTargets(response')
                    => /\ h \in habits'
                       /\ calculate_streak(h.id, completions', today')
                              = calculate_streak(h.id, completions, today)]_vars

\* C17's case: a completion of one habit was just deleted while another habit
\* has a running streak
C17_Witness ==
    /\ response.op = "delete_completion"
    /\ response.status = 200
    /\ \E h \in habits :
          /\ h.id \notin WriteTargets(response)
          /\ calculate_streak(h.id, completions, today) > 0

====
